---- MODULE Spec2Model ----
(***************************************************************************)
(* Gymnasion web app (src/app.py): the response engine GymnasionWebApp,    *)
(* its per-client Flask session and the /analyze and /reset routes.        *)
(*                                                                         *)
(* Strings are sequences of atoms: an atom is a word (a maximal run of     *)
(* non-whitespace characters) or one whitespace character (" " or "\n").   *)
(* str.split() keeps the word atoms, str.strip() drops the whitespace at   *)
(* both ends, str.lower() maps every word through Lower.  A response is a  *)
(* sequence of strings: the template that produced it followed by the      *)
(* values interpolated into it; the decorative phrase drawn with           *)
(* random.choice for the same template is not part of the model.           *)
(***************************************************************************)
EXTENDS Integers, Sequences, FiniteSets, TLC

VARIABLES
    session,            \* client -> the client's Flask session (a record of its keys)
    request,            \* the last request handled: its route, body and the poem length it found
    response,           \* the 'response' field of the last JSON reply of /analyze
    quote_log,          \* history: client -> quotes returned by _suggest_quote since start/reset
    imitation_calls     \* history: client -> _authorial_imitation runs since the challenge opened

vars == <<session, request, response, quote_log, imitation_calls>>

\* --------------------------------------------------------------- bounds
MaxTurns == 2            \* non-empty turns of a session before only /reset is taken
MaxImitationTurns == 4   \* the same, in SpecImitation
MaxQuoteTurns == 7       \* the same, in SpecQuote
MaxBoredomTurns == 5     \* the same, in SpecBoredom
MaxTranscriptTurns == 2  \* the same, in SpecTranscript
MaxThresholdTurns == 5   \* the same, in SpecThreshold
MaxFallbackTurns == 6    \* the same, in SpecFallback
MaxDispatchTurns == 2    \* the same, in SpecDispatch
MaxSessionTurns == 1     \* the same for each of the two clients, in SpecSessions

\* ------------------------------------------------------------- strings
SP == " "
NL == "\n"
Whitespace == {SP, NL}
None == <<>>            \* Python None / "" : the falsy response
Raised == <<"500 Internal Server Error">>   \* an exception (KeyError) instead of a return value

Range(s) == {s[i] : i \in 1..Len(s)}

\* str.lower() on one word of the vocabulary of the texts
Lower(w) ==
    CASE w = "I" -> "i"
      [] w = "A" -> "a"
      [] w = "The" -> "the"
      [] w = "Forest" -> "forest"
      [] w = "Ashland" -> "ashland"
      [] OTHER -> w

\* word[0].isupper()
IsUpperInitial(w) == w \in {"I", "A", "The", "Forest", "Ashland"}

\* len(word)
CharLen(w) ==
    CASE w \in {"I", "A", "i"} -> 1
      [] w \in {"it", "so", "in"} -> 2
      [] w \in {"The", "the", "sea"} -> 3
      [] w \in {"love", "wolf", "moon", "goes"} -> 4
      [] w \in {"howls", "hunts"} -> 5
      [] w \in {"Forest", "forest"} -> 6
      [] w = "Ashland" -> 7
      [] w = "moonlight" -> 9
      [] OTHER -> 5

\* str.endswith(('land', 'ton', 'ville', 'berg', 'burg')) on a lower-cased word
EndsWithPlaceSuffix(w) == w \in {"ashland"}

\* str.title() on an author of MOCK_AUTHORS
Title(a) ==
    CASE a = "dickinson" -> "Dickinson"
      [] a = "whitman" -> "Whitman"
      [] a = "shakespeare" -> "Shakespeare"
      [] a = "yeats" -> "Yeats"
      [] a = "frost" -> "Frost"
      [] OTHER -> a

\* str.split(): the words of a string, in order
Split(text) == SelectSeq(text, LAMBDA a : a \notin Whitespace)

\* str.lower() on a string
LowerText(text) == [i \in 1..Len(text) |-> Lower(text[i])]

\* str.strip(): the string without its leading and trailing whitespace
Strip(text) ==
    LET idx == {i \in 1..Len(text) : text[i] \notin Whitespace}
    IN  IF idx = {} THEN <<>>
        ELSE LET lo == CHOOSE i \in idx : \A j \in idx : i <= j
                 hi == CHOOSE i \in idx : \A j \in idx : j <= i
             IN  SubSeq(text, lo, hi)

\* ------------------------------------------------------------ catalogs
MOCK_QUOTES == <<
    <<"The mountains are calling and I must go.", "John Muir">>,
    <<"In every walk with nature, one receives far more than they seek.", "John Muir">>,
    <<"The sea, once it casts its spell, holds one in its net of wonder forever.", "Jacques Cousteau">>,
    <<"Look deep into nature, and then you will understand everything better.", "Albert Einstein">>,
    <<"The poetry of earth is never dead.", "John Keats">> >>

MOCK_AUTHORS == <<"dickinson", "whitman", "shakespeare", "yeats", "frost">>

common_nouns == {"forest", "mountain", "bird", "sea", "tree", "sky", "sun", "moon",
                 "star", "river", "lake", "flower", "stone", "wind", "fire", "earth",
                 "wolf", "deer", "eagle", "lion", "bear", "snake", "fish", "horse"}

recall_nouns == {"forest", "mountain", "bird", "sea", "tree", "sky", "sun", "moon"}

comparison_nouns == {"forest", "mountain", "bird", "sea", "tree", "sky"}

stubs == {"The mountains are calling and I must",
          "In every walk with nature, one receives",
          "Look deep into nature, and then you will",
          "The poetry of earth is never",
          "Two roads diverged in a yellow"}

\* ------------------------------------------------------------- session
\* A session is a function from the keys it holds to their values.
\* A new session, and the session after session.clear(), holds no key.
EmptySession == [k \in {} |-> 0]

\* the defaults of the six session keys (ensure_session, reset_session)
DefaultSession ==
    [poem_text |-> <<>>,
     banished_words |-> <<>>,
     used_quotes |-> <<>>,
     boredom |-> 0,
     to_imitate |-> "",
     imitation_attempts |-> 0]

\* session[key] = value
Assign(st, key, value) ==
    [k \in DOMAIN st \cup {key} |-> IF k = key THEN value ELSE st[k]]

\* session.get(key, default)
Get(st, key, default) == IF key \in DOMAIN st THEN st[key] ELSE default

\* mutant: ensure_session does not set the default of 'boredom'
ensure_session_no_boredom(st) ==
    [k \in DOMAIN st \cup (DOMAIN DefaultSession \ {"boredom"}) |->
        IF k \in DOMAIN st THEN st[k] ELSE DefaultSession[k]]

\* GymnasionWebApp.ensure_session: every missing key gets its default
ensure_session(st) ==
    [k \in DOMAIN st \cup DOMAIN DefaultSession |->
        IF k \in DOMAIN st THEN st[k] ELSE DefaultSession[k]]

\* a strategy's result: the response it returns and the session it leaves
Out(resp, st) == [resp |-> resp, st |-> st]

\* ---------------------------------------------------------- strategies
\* Each strategy is the set of results its random draws allow.

_extract_nouns(text) ==
    SelectSeq(Split(LowerText(text)), LAMBDA w : w \in common_nouns)

_question_about_adjectives(text, st) ==
    LET nouns == _extract_nouns(text)
    IN  IF nouns = <<>> THEN {Out(None, st)}
        ELSE {Out(<<"What sort of", noun>>, st) : noun \in Range(nouns)}

_question_about_verb(text, st) ==
    LET nouns == _extract_nouns(text)
    IN  IF nouns = <<>> THEN {Out(None, st)}
        ELSE {Out(<<"the noun verb?", noun>>, st) : noun \in Range(nouns)}

_question_about_object(text, st) ==
    LET nouns == _extract_nouns(text)
    IN  IF nouns = <<>> THEN {Out(None, st)}
        ELSE {Out(<<"the noun do to the", noun>>, st) : noun \in Range(nouns)}

\* mutant: the quotes already used are not filtered out
_suggest_quote_no_filter(text, st) ==
    LET used == IF st.used_quotes # <<>> /\ Len(st.used_quotes) >= Len(MOCK_QUOTES)
                THEN <<>> ELSE st.used_quotes
        available_quotes == MOCK_QUOTES
    IN  IF available_quotes = <<>> THEN {Out(None, [st EXCEPT !.used_quotes = used])}
        ELSE {Out(<<"quote", q[1], q[2]>>, [st EXCEPT !.used_quotes = Append(used, q)])
                : q \in Range(available_quotes)}

_suggest_quote(text, st) ==
    LET used == IF st.used_quotes # <<>> /\ Len(st.used_quotes) >= Len(MOCK_QUOTES)
                THEN <<>> ELSE st.used_quotes
        available_quotes == SelectSeq(MOCK_QUOTES, LAMBDA q : q \notin Range(used))
    IN  IF available_quotes = <<>> THEN {Out(None, [st EXCEPT !.used_quotes = used])}
        ELSE {Out(<<"quote", q[1], q[2]>>, [st EXCEPT !.used_quotes = Append(used, q)])
                : q \in Range(available_quotes)}

\* mutant: the banished word replaces the list instead of being appended
_word_banishment_replaces(text, st) ==
    LET nouns == _extract_nouns(text)
        available_nouns == SelectSeq(nouns, LAMBDA n : n \notin Range(st.banished_words))
    IN  IF available_nouns = <<>> THEN {Out(None, st)}
        ELSE {Out(<<"I forbid you from singing of", banned_word>>,
                  [st EXCEPT !.banished_words = <<banned_word>>])
                : banned_word \in Range(available_nouns)}

_word_banishment(text, st) ==
    LET nouns == _extract_nouns(text)
        available_nouns == SelectSeq(nouns, LAMBDA n : n \notin Range(st.banished_words))
    IN  IF available_nouns = <<>> THEN {Out(None, st)}
        ELSE {Out(<<"I forbid you from singing of", banned_word>>,
                  [st EXCEPT !.banished_words = Append(@, banned_word)])
                : banned_word \in Range(available_nouns)}

\* mutant: the words of the text are compared without lower-casing
_check_banished_words_no_lower(text, st) ==
    IF st.banished_words = <<>> THEN {Out(None, st)}
    ELSE LET words == Split(text)
             hits == SelectSeq(words, LAMBDA w : w \in Range(st.banished_words))
         IN  IF hits # <<>> THEN {Out(<<"I said not to sing of", Head(hits)>>, st)}
             ELSE {Out(None, st)}

\* mutant: a word is warned about once, then dropped from the list
_check_banished_words_forgives(text, st) ==
    IF st.banished_words = <<>> THEN {Out(None, st)}
    ELSE LET words == Split(LowerText(text))
             hits == SelectSeq(words, LAMBDA w : w \in Range(st.banished_words))
         IN  IF hits # <<>>
             THEN {Out(<<"I said not to sing of", Head(hits)>>,
                       [st EXCEPT !.banished_words = SelectSeq(@, LAMBDA w : w # Head(hits))])}
             ELSE {Out(None, st)}

_check_banished_words(text, st) ==
    IF st.banished_words = <<>> THEN {Out(None, st)}
    ELSE LET words == Split(LowerText(text))
             hits == SelectSeq(words, LAMBDA w : w \in Range(st.banished_words))
         IN  IF hits # <<>> THEN {Out(<<"I said not to sing of", Head(hits)>>, st)}
             ELSE {Out(None, st)}

\* mutant: the challenge closes when attempts fall below 0, not at 0
_authorial_imitation_below_zero(text, st) ==
    IF st.to_imitate = ""
    THEN {Out(<<"Try that again, in the style of", Title(author)>>,
              [st EXCEPT !.to_imitate = author, !.imitation_attempts = 3])
            : author \in Range(MOCK_AUTHORS)}
    ELSE LET attempts == st.imitation_attempts - 1
         IN  UNION {
               IF attempts < 0 \/ roll
               THEN {Out(<<"Good.">>,
                         [st EXCEPT !.to_imitate = "", !.imitation_attempts = 0])}
               ELSE {Out(<<"No, not that style --- imitate", Title(st.to_imitate)>>,
                         [st EXCEPT !.imitation_attempts = attempts])}
               : roll \in BOOLEAN }

\* mutant: closing the challenge clears the target and keeps the attempts
_authorial_imitation_keeps_attempts(text, st) ==
    IF st.to_imitate = ""
    THEN {Out(<<"Try that again, in the style of", Title(author)>>,
              [st EXCEPT !.to_imitate = author, !.imitation_attempts = 3])
            : author \in Range(MOCK_AUTHORS)}
    ELSE LET attempts == st.imitation_attempts - 1
         IN  UNION {
               IF attempts <= 0 \/ roll
               THEN {Out(<<"Good.">>,
                         [st EXCEPT !.to_imitate = "", !.imitation_attempts = attempts])}
               ELSE {Out(<<"No, not that style --- imitate", Title(st.to_imitate)>>,
                         [st EXCEPT !.imitation_attempts = attempts])}
               : roll \in BOOLEAN }

\* mutant: a failed attempt draws a new author
_authorial_imitation_new_author(text, st) ==
    IF st.to_imitate = ""
    THEN {Out(<<"Try that again, in the style of", Title(author)>>,
              [st EXCEPT !.to_imitate = author, !.imitation_attempts = 3])
            : author \in Range(MOCK_AUTHORS)}
    ELSE LET attempts == st.imitation_attempts - 1
         IN  UNION {
               IF attempts <= 0 \/ roll
               THEN {Out(<<"Good.">>,
                         [st EXCEPT !.to_imitate = "", !.imitation_attempts = 0])}
               ELSE {Out(<<"No, not that style --- imitate", Title(author)>>,
                         [st EXCEPT !.to_imitate = author, !.imitation_attempts = attempts])
                       : author \in Range(MOCK_AUTHORS)}
               : roll \in BOOLEAN }

_authorial_imitation(text, st) ==
    IF st.to_imitate = ""
    THEN {Out(<<"Try that again, in the style of", Title(author)>>,
              [st EXCEPT !.to_imitate = author, !.imitation_attempts = 3])
            : author \in Range(MOCK_AUTHORS)}
    ELSE LET attempts == st.imitation_attempts - 1
         IN  UNION {
               IF attempts <= 0 \/ roll
               THEN {Out(<<"Good.">>,
                         [st EXCEPT !.to_imitate = "", !.imitation_attempts = 0])}
               ELSE {Out(<<"No, not that style --- imitate", Title(st.to_imitate)>>,
                         [st EXCEPT !.imitation_attempts = attempts])}
               : roll \in BOOLEAN }

_suggest_quote_stub(text, st) ==
    {Out(<<"stub", stub>>, st) : stub \in stubs}

_comment_about_entities(text, st) ==
    LET words == Split(text)
        entities == SelectSeq(words, LAMBDA w : IsUpperInitial(w) /\ CharLen(w) > 2)
    IN  IF entities = <<>> THEN {Out(None, st)}
        ELSE {IF EndsWithPlaceSuffix(Lower(entity))
              THEN Out(<<"place", entity>>, st)
              ELSE Out(<<"person", entity>>, st)
                : entity \in Range(entities)}

_word2vec_suggestions(text, st) ==
    LET nouns == _extract_nouns(text)
    IN  IF nouns = <<>> THEN {Out(None, st)}
        ELSE {Out(<<"You've sung me", noun>>, st) : noun \in Range(nouns)}

\* mutant: the complaint is made from boredom 2 on
_repetition_judgment_from_two(text, st) ==
    IF st.boredom < 2 THEN {Out(None, st)}
    ELSE LET words == Split(text)
         IN  IF Len(words) > 3 /\ Lower(words[1]) = "i"
             THEN {Out(<<"Eschew this tired syntax:">> \o SubSeq(words, 1, 4),
                       [st EXCEPT !.boredom = 0])}
             ELSE {Out(None, st)}

\* mutant: boredom is reset before the syntax of the text is looked at
_repetition_judgment_early_reset(text, st) ==
    IF st.boredom < 3 THEN {Out(None, st)}
    ELSE LET words == Split(text)
         IN  IF Len(words) > 3 /\ Lower(words[1]) = "i"
             THEN {Out(<<"Eschew this tired syntax:">> \o SubSeq(words, 1, 4),
                       [st EXCEPT !.boredom = 0])}
             ELSE {Out(None, [st EXCEPT !.boredom = 0])}

_repetition_judgment(text, st) ==
    IF st.boredom < 3 THEN {Out(None, st)}
    ELSE LET words == Split(text)
         IN  IF Len(words) > 3 /\ Lower(words[1]) = "i"
             THEN {Out(<<"Eschew this tired syntax:">> \o SubSeq(words, 1, 4),
                       [st EXCEPT !.boredom = 0])}
             ELSE {Out(None, st)}

_command_recall_noun(text, st) ==
    IF st.boredom < 5 THEN {Out(None, st)}
    ELSE LET poem_words == Split(st.poem_text)
             nouns == SelectSeq(poem_words, LAMBDA w : Lower(w) \in recall_nouns)
         IN  IF nouns = <<>> THEN {Out(None, st)}
             ELSE {Out(<<"recall", old_noun>>, [st EXCEPT !.boredom = 0])
                     : old_noun \in Range(nouns)}

\* mutant: boredom is reset before the nouns are looked for
_command_comparison_early_reset(text, st) ==
    IF st.boredom < 5 THEN {Out(None, st)}
    ELSE LET current_nouns == _extract_nouns(text)
             poem_words == Split(st.poem_text)
             old_nouns == SelectSeq(poem_words, LAMBDA w : Lower(w) \in comparison_nouns)
             st0 == [st EXCEPT !.boredom = 0]
         IN  IF current_nouns = <<>> \/ old_nouns = <<>> THEN {Out(None, st0)}
             ELSE {Out(<<"Now compare the", old_noun, current_noun>>, st0)
                     : old_noun \in Range(old_nouns), current_noun \in Range(current_nouns)}

_command_comparison(text, st) ==
    IF st.boredom < 5 THEN {Out(None, st)}
    ELSE LET current_nouns == _extract_nouns(text)
             poem_words == Split(st.poem_text)
             old_nouns == SelectSeq(poem_words, LAMBDA w : Lower(w) \in comparison_nouns)
         IN  IF current_nouns = <<>> \/ old_nouns = <<>> THEN {Out(None, st)}
             ELSE {Out(<<"Now compare the", old_noun, current_noun>>,
                       [st EXCEPT !.boredom = 0])
                     : old_noun \in Range(old_nouns), current_noun \in Range(current_nouns)}

\* the session keys a strategy reads with session[key]: a key the session
\* does not hold raises KeyError before the strategy has changed anything
Needs(f, st) ==
    CASE f = "_suggest_quote" -> {"used_quotes"}
      [] f = "_word_banishment" -> {"banished_words"}
      [] f = "_authorial_imitation" ->
            IF Get(st, "to_imitate", "") # "" THEN {"imitation_attempts"} ELSE {}
      [] f = "_repetition_judgment" -> {"boredom"}
      [] f \in {"_command_recall_noun", "_command_comparison"} -> {"boredom", "poem_text"}
      [] OTHER -> {}

\* response_func(text): the call of one strategy by its name
Call(f, text, st) ==
    IF ~ (Needs(f, st) \subseteq DOMAIN st) THEN {Out(Raised, st)} ELSE
    CASE f = "_question_about_adjectives" -> _question_about_adjectives(text, st)
      [] f = "_question_about_verb" -> _question_about_verb(text, st)
      [] f = "_question_about_object" -> _question_about_object(text, st)
      [] f = "_word2vec_suggestions" -> _word2vec_suggestions(text, st)
      [] f = "_comment_about_entities" -> _comment_about_entities(text, st)
      [] f = "_suggest_quote" -> _suggest_quote(text, st)
      [] f = "_suggest_quote_stub" -> _suggest_quote_stub(text, st)
      [] f = "_authorial_imitation" -> _authorial_imitation(text, st)
      [] f = "_word_banishment" -> _word_banishment(text, st)
      [] f = "_check_banished_words" -> _check_banished_words(text, st)
      [] f = "_repetition_judgment" -> _repetition_judgment(text, st)
      [] f = "_command_recall_noun" -> _command_recall_noun(text, st)
      [] f = "_command_comparison" -> _command_comparison(text, st)

\* ---------------------------------------------------------- dispatcher
\* mutant: 'mixed' lists every strategy of the four thematic modes
mode_functions_all_in_mixed ==
    [elaboration |-> <<"_question_about_adjectives", "_question_about_verb",
                       "_question_about_object", "_word2vec_suggestions",
                       "_comment_about_entities">>,
     imitation |-> <<"_suggest_quote", "_suggest_quote_stub", "_authorial_imitation">>,
     variation |-> <<"_word_banishment", "_check_banished_words", "_repetition_judgment">>,
     backtracking |-> <<"_command_recall_noun", "_command_comparison">>,
     mixed |-> <<"_question_about_adjectives", "_question_about_verb",
                 "_question_about_object", "_suggest_quote", "_suggest_quote_stub",
                 "_word_banishment", "_check_banished_words", "_authorial_imitation",
                 "_word2vec_suggestions", "_comment_about_entities",
                 "_repetition_judgment", "_command_recall_noun",
                 "_command_comparison">>]

\* mutant: the pool of 'elaboration' holds the quote suggestion as well
mode_functions_quote_in_elaboration ==
    [elaboration |-> <<"_question_about_adjectives", "_question_about_verb",
                       "_question_about_object", "_word2vec_suggestions",
                       "_comment_about_entities", "_suggest_quote">>,
     imitation |-> <<"_suggest_quote", "_suggest_quote_stub", "_authorial_imitation">>,
     variation |-> <<"_word_banishment", "_check_banished_words", "_repetition_judgment">>,
     backtracking |-> <<"_command_recall_noun", "_command_comparison">>,
     mixed |-> <<"_question_about_adjectives", "_question_about_verb",
                 "_question_about_object", "_suggest_quote", "_word_banishment",
                 "_check_banished_words", "_authorial_imitation",
                 "_word2vec_suggestions", "_repetition_judgment",
                 "_command_recall_noun", "_command_comparison">>]

mode_functions ==
    [elaboration |-> <<"_question_about_adjectives", "_question_about_verb",
                       "_question_about_object", "_word2vec_suggestions",
                       "_comment_about_entities">>,
     imitation |-> <<"_suggest_quote", "_suggest_quote_stub", "_authorial_imitation">>,
     variation |-> <<"_word_banishment", "_check_banished_words", "_repetition_judgment">>,
     backtracking |-> <<"_command_recall_noun", "_command_comparison">>,
     mixed |-> <<"_question_about_adjectives", "_question_about_verb",
                 "_question_about_object", "_suggest_quote", "_word_banishment",
                 "_check_banished_words", "_authorial_imitation",
                 "_word2vec_suggestions", "_repetition_judgment",
                 "_command_recall_noun", "_command_comparison">>]

\* mutant: an unrecognized mode has an empty pool
response_types_no_default(mode) ==
    IF mode \in DOMAIN mode_functions THEN mode_functions[mode] ELSE <<>>

\* mode_functions.get(mode, mode_functions['mixed'])
response_types(mode) ==
    IF mode \in DOMAIN mode_functions THEN mode_functions[mode] ELSE mode_functions["mixed"]

\* mode in ['imitation', 'mixed']
ImitationPriorityModes == {"imitation", "mixed"}

\* mutant: the loop ends at the first strategy tried, whatever it returns
FirstMatch_gives_up(remaining, text, st) ==
    IF remaining = {} THEN {Out(<<"Continue...">>, st)}
    ELSE UNION {{IF o.resp \notin {None, Raised} THEN o
                 ELSE Out(<<"Continue...">>, o.st) : o \in Call(f, text, st)}
                  : f \in remaining}

\* random.shuffle(response_types) and the first-match loop: the results of
\* trying the strategies of `remaining` in every order.  A strategy that
\* returns None is skipped and the session it left is handed to the next;
\* so is a strategy that raises (except Exception: continue).
\* Strategies that can only return None or raise and leave the session as it
\* was (silent) do not affect the others, whatever their place in the order:
\* when every strategy is silent or always responds, the loop's results are
\* the responses of the strategies that respond, or the fallback if none does.
RECURSIVE FirstMatch(_, _, _)
FirstMatch(remaining, text, st) ==
    LET silent == {f \in remaining :
                     Call(f, text, st) \in {{Out(None, st)}, {Out(Raised, st)}}}
        skipping == {f \in remaining \ silent :
                       \E o \in Call(f, text, st) : o.resp \in {None, Raised}}
    IN  IF remaining = silent THEN {Out(<<"Continue...">>, st)}
        ELSE IF skipping = {}
        THEN UNION {Call(f, text, st) : f \in remaining \ silent}
        ELSE UNION {UNION {IF o.resp \notin {None, Raised} THEN {o}
                           ELSE FirstMatch(remaining \ {f}, text, o.st)
                             : o \in Call(f, text, st)}
                      : f \in remaining}

\* mutant: an open challenge is not given priority over the pool
analyze_text_no_priority(text, mode, st) ==
    IF Strip(text) = <<>> THEN {Out(None, st)}
    ELSE LET st0 == ensure_session(st)
             st1 == [st0 EXCEPT !.poem_text = @ \o <<NL>> \o text,
                                !.boredom = @ + 1]
             banned_check == IF st1.banished_words # <<>>
                             THEN _check_banished_words(text, st1)
                             ELSE {Out(None, st1)}
         IN  UNION {
               IF b.resp # None THEN {b}
               ELSE FirstMatch(Range(response_types(mode)), text, b.st)
               : b \in banned_check }

\* mutant: the text replaces the transcript instead of being appended to it
analyze_text_overwrite(text, mode, st) ==
    IF Strip(text) = <<>> THEN {Out(None, st)}
    ELSE LET st0 == ensure_session(st)
         IN  IF "poem_text" \notin DOMAIN st0 THEN {Out(Raised, st0)}
             ELSE IF "boredom" \notin DOMAIN st0
             THEN {Out(Raised, [st0 EXCEPT !.poem_text = @ \o <<NL>> \o text])}
             ELSE
             LET st1 == [st0 EXCEPT !.poem_text = <<NL>> \o text,
                                    !.boredom = @ + 1]
                 banned_check == IF Get(st1, "banished_words", <<>>) # <<>>
                                 THEN _check_banished_words(text, st1)
                                 ELSE {Out(None, st1)}
             IN  UNION {
                   IF b.resp # None THEN {b}
                   ELSE IF Get(b.st, "to_imitate", "") # "" /\ mode \in ImitationPriorityModes
                        THEN UNION {IF i.resp # None THEN {i}
                                    ELSE FirstMatch(Range(response_types(mode)), text, i.st)
                                      : i \in Call("_authorial_imitation", text, b.st)}
                        ELSE FirstMatch(Range(response_types(mode)), text, b.st)
                   : b \in banned_check }

\* GymnasionWebApp.analyze_text(text, mode) on session st.  The two updates
\* of lines 85-86 and the two priority calls are outside the loop's try: an
\* exception there leaves analyze_text.
analyze_text(text, mode, st) ==
    IF Strip(text) = <<>> THEN {Out(None, st)}
    ELSE LET st0 == ensure_session(st)
         IN  IF "poem_text" \notin DOMAIN st0 THEN {Out(Raised, st0)}
             ELSE IF "boredom" \notin DOMAIN st0
             THEN {Out(Raised, [st0 EXCEPT !.poem_text = @ \o <<NL>> \o text])}
             ELSE
             LET st1 == [st0 EXCEPT !.poem_text = @ \o <<NL>> \o text,
                                    !.boredom = @ + 1]
                 banned_check == IF Get(st1, "banished_words", <<>>) # <<>>
                                 THEN _check_banished_words(text, st1)
                                 ELSE {Out(None, st1)}
             IN  UNION {
                   IF b.resp # None THEN {b}
                   ELSE IF Get(b.st, "to_imitate", "") # "" /\ mode \in ImitationPriorityModes
                        THEN UNION {IF i.resp # None THEN {i}
                                    ELSE FirstMatch(Range(response_types(mode)), text, i.st)
                                      : i \in Call("_authorial_imitation", text, b.st)}
                        ELSE FirstMatch(Range(response_types(mode)), text, b.st)
                   : b \in banned_check }

\* mutant: the route does not strip the text before testing it for emptiness
analyze_no_strip(text, mode, st) ==
    LET user_input == text
    IN  IF user_input = <<>> THEN {Out(<<"Please enter some text.">>, st)}
        ELSE {Out(IF o.resp # None THEN o.resp ELSE <<"Continue...">>, o.st)
                : o \in analyze_text(user_input, mode, st)}

\* the /analyze route: the reply's response and the session it saves.  An
\* exception that leaves analyze_text ends the request with status 500; the
\* session is then saved as it stood, or not at all when the server re-raises.
analyze(text, mode, st) ==
    LET user_input == Strip(text)
    IN  IF user_input = <<>> THEN {Out(<<"Please enter some text.">>, st)}
        ELSE UNION {IF o.resp = Raised THEN {Out(Raised, o.st), Out(Raised, st)}
                    ELSE {Out(IF o.resp # None THEN o.resp ELSE <<"Continue...">>, o.st)}
                      : o \in analyze_text(user_input, mode, st)}

\* mutant: the attempts are reset to the value a new challenge starts with
reset_session_three_attempts(st) ==
    LET s1 == Assign(st, "poem_text", <<>>)
        s2 == Assign(s1, "banished_words", <<>>)
        s3 == Assign(s2, "used_quotes", <<>>)
        s4 == Assign(s3, "boredom", 0)
        s5 == Assign(s4, "to_imitate", "")
    IN  Assign(s5, "imitation_attempts", 3)

\* GymnasionWebApp.reset_session
reset_session(st) ==
    LET s1 == Assign(st, "poem_text", <<>>)
        s2 == Assign(s1, "banished_words", <<>>)
        s3 == Assign(s2, "used_quotes", <<>>)
        s4 == Assign(s3, "boredom", 0)
        s5 == Assign(s4, "to_imitate", "")
    IN  Assign(s5, "imitation_attempts", 0)

\* the /reset route: session.clear(), then reset_session
reset(st) == reset_session(EmptySession)

\* the /status route: what the accessors report
status(st) ==
    [banished_words |-> Get(st, "banished_words", <<>>),
     to_imitate |-> Get(st, "to_imitate", ""),
     poem_length |-> Len(Split(Get(st, "poem_text", <<>>))),
     boredom |-> Get(st, "boredom", 0)]

\* ---------------------------------------------------------------- inputs
Modes == {"elaboration", "imitation", "variation", "backtracking", "mixed", "epic"}

TextForest == <<"I", SP, "love", SP, "the", SP, "forest">>
TextAshland == <<"Ashland", SP, "Forest", SP, "moon">>
TextWolf == <<"The", SP, "wolf", SP, "howls">>
TextPlain == <<"so", SP, "it", SP, "goes">>
TextMoonlight == <<"A", SP, "wolf", SP, "hunts", SP, "in", SP, "the", SP, "moonlight">>
TextPadded == <<SP, "so", SP, "it", SP, "goes", NL>>
TextLowerI == <<"i", SP, "love", SP, "the", SP, "forest">>
TextBlank == <<SP, SP>>
TextEmpty == <<>>

Texts == {TextForest, TextAshland, TextPlain, TextBlank, TextEmpty}

Clients == {1, 2}

\* the number of non-empty turns of a session: one "\n" is written per turn
Turns(st) == Len(SelectSeq(Get(st, "poem_text", <<>>), LAMBDA a : a = NL))

\* ---------------------------------------------------------------- actions
Init ==
    /\ session = [c \in Clients |-> EmptySession]
    /\ request = [route |-> "", client |-> 0, text |-> <<>>, mode |-> "", poem_length |-> 0]
    /\ response = None
    /\ quote_log = [c \in Clients |-> <<>>]
    /\ imitation_calls = [c \in Clients |-> 0]

\* mutant: the state is kept on the one engine object, for every client
Store_on_engine(sessions, c, st) == [k \in DOMAIN sessions |-> st]

\* the response carries the session back to the client it came from: flask's
\* session is the cookie of the current request, gym_app holds no field
Store(sessions, c, st) == [sessions EXCEPT ![c] = st]

IsQuote(r) == r # None /\ r[1] = "quote"
IsOpening(r) == r # None /\ r[1] = "Try that again, in the style of"
IsImitationCheck(r) == r # None /\ r[1] \in {"Good.", "No, not that style --- imitate"}

\* POST /analyze {text, mode} by client c
Analyze(c, text, mode, max) ==
    /\ Turns(session[c]) < max
    /\ request' = [route |-> "/analyze", client |-> c, text |-> text, mode |-> mode,
                   poem_length |-> status(session[c]).poem_length]
    /\ \E o \in analyze(text, mode, session[c]) :
         /\ session' = Store(session, c, o.st)
         /\ response' = o.resp
         /\ quote_log' = [quote_log EXCEPT ![c] =
                IF IsQuote(o.resp) THEN Append(@, <<o.resp[2], o.resp[3]>>) ELSE @]
         /\ imitation_calls' = [imitation_calls EXCEPT ![c] =
                IF IsOpening(o.resp) THEN 0
                ELSE IF IsImitationCheck(o.resp) THEN @ + 1 ELSE @]

\* POST /reset by client c
Reset(c) ==
    /\ request' = [route |-> "/reset", client |-> c, text |-> <<>>, mode |-> "",
                   poem_length |-> status(session[c]).poem_length]
    /\ session' = Store(session, c, reset(session[c]))
    /\ response' = None
    /\ quote_log' = [quote_log EXCEPT ![c] = <<>>]
    /\ imitation_calls' = [imitation_calls EXCEPT ![c] = 0]

\* every mode and text, one client
Next ==
    \/ \E text \in Texts, mode \in Modes : Analyze(1, text, mode, MaxTurns)
    \/ Reset(1)

Spec == Init /\ [][Next]_vars

\* the imitation challenge: every mode, one text with a noun and the blank text
NextImitation ==
    \/ \E text \in {TextWolf, TextBlank}, mode \in Modes :
         Analyze(1, text, mode, MaxImitationTurns)
    \/ Reset(1)

SpecImitation == Init /\ [][NextImitation]_vars

\* quote suggestion: the modes whose pool holds _suggest_quote
NextQuote ==
    \/ \E mode \in {"imitation", "mixed"} : Analyze(1, TextPlain, mode, MaxQuoteTurns)
    \/ Reset(1)

SpecQuote == Init /\ [][NextQuote]_vars

\* boredom: the modes whose pool holds a boredom-resetting strategy, and elaboration
NextBoredom ==
    \/ \E text \in {TextForest, TextWolf, TextPlain},
          mode \in {"variation", "backtracking", "elaboration"} :
         Analyze(1, text, mode, MaxBoredomTurns)
    \/ Reset(1)

SpecBoredom == Init /\ [][NextBoredom]_vars

\* the transcript: a six-word text, a text with surrounding whitespace
NextTranscript ==
    \/ \E text \in {TextMoonlight, TextForest, TextPadded, TextBlank},
          mode \in {"elaboration", "variation", "mixed"} :
         Analyze(1, text, mode, MaxTranscriptTurns)
    \/ Reset(1)

SpecTranscript == Init /\ [][NextTranscript]_vars

\* the boredom thresholds: texts whose first word is "I", "i" and neither
NextThreshold ==
    \/ \E text \in {TextForest, TextLowerI, TextPlain},
          mode \in {"variation", "backtracking"} :
         Analyze(1, text, mode, MaxThresholdTurns)
    \/ Reset(1)

SpecThreshold == Init /\ [][NextThreshold]_vars

\* the fallback: a text no strategy that looks at the text responds to, in
\* the modes whose pool holds a quote or imitation strategy, an unrecognized
\* mode and 'backtracking'
NextFallback ==
    \/ \E mode \in {"imitation", "mixed", "epic", "backtracking"} :
         Analyze(1, TextPlain, mode, MaxFallbackTurns)
    \/ Reset(1)

SpecFallback == Init /\ [][NextFallback]_vars

\* the dispatcher: every mode, a text with a noun and a text without
NextDispatch ==
    \/ \E text \in {TextForest, TextPlain}, mode \in Modes :
         Analyze(1, text, mode, MaxDispatchTurns)
    \/ Reset(1)

SpecDispatch == Init /\ [][NextDispatch]_vars

\* two clients whose turns and resets interleave
NextSessions ==
    \/ \E c \in Clients, text \in {TextForest, TextBlank},
          mode \in {"variation", "imitation"} :
         Analyze(c, text, mode, MaxSessionTurns)
    \/ \E c \in Clients : Reset(c)

SpecSessions == Init /\ [][NextSessions]_vars

\* ------------------------------------------------------------------ claims
\* client 1's session as stored, and as the code reads it (missing keys defaulted)
Raw == session[1]
Sess == ensure_session(session[1])
Seen(c) == ensure_session(session[c])

\* the session as analyze_text leaves it before any strategy runs
Started(text, st) ==
    [ensure_session(st) EXCEPT !.poem_text = @ \o <<NL>> \o Strip(text), !.boredom = @ + 1]

\* the lower-cased words of the text that are banished in session st
BanishedTokens(text, st) ==
    {w \in Range(Split(LowerText(text))) : w \in Range(st.banished_words)}

\* a non-empty turn has just been handled
TurnTaken == request.route = "/analyze" /\ Strip(request.text) # <<>>

\* C1: for every session state, mode and non-empty text, if a lower-cased
\* token of the text is banished at the start of the turn, every possible
\* reply of the turn is the banished-word warning naming a banished token of
\* the text, never another strategy's response.
C1_BanishedWarningWins ==
    \A text \in Texts, mode \in Modes :
        (Strip(text) # <<>> /\ BanishedTokens(text, Sess) # {}) =>
            \A o \in analyze(text, mode, Raw) :
                /\ Len(o.resp) = 2
                /\ o.resp[1] = "I said not to sing of"
                /\ o.resp[2] \in BanishedTokens(text, Sess)

\* C1 witness: a turn whose capitalised word is banished in lower case was
\* answered by the warning, in a mode whose pool does not hold the check.
C1_Witness ==
    /\ TurnTaken
    /\ request.text = TextAshland
    /\ request.mode = "elaboration"
    /\ response = <<"I said not to sing of", "forest">>

\* C3: in every reachable state the imitation target is set exactly when
\* attempts remain, and the attempts are within 0..3.
C3_TargetIffAttempts ==
    \A c \in Clients :
        /\ Seen(c).imitation_attempts \in 0..3
        /\ (Seen(c).to_imitate # "") <=> (Seen(c).imitation_attempts > 0)
        /\ Seen(c).to_imitate \in Range(MOCK_AUTHORS) \cup {""}

\* the imitation strategy has just run on client c's open challenge
ImitationChecked(c) ==
    /\ request'.route = "/analyze"
    /\ request'.client = c
    /\ Seen(c).to_imitate # ""
    /\ IsImitationCheck(response')
    /\ Seen(c)'.poem_text # Seen(c).poem_text

\* C2: an open challenge is closed after at most three runs of the imitation
\* strategy: while open, runs + attempts = 3; each run on an open challenge
\* either leaves it open with one attempt less or closes it (target unset,
\* attempts 0); the run that finds one attempt left always closes it.
C2_ClosedWithinThree ==
    /\ [](\A c \in Clients :
            /\ imitation_calls[c] \in 0..3
            /\ Seen(c).to_imitate # "" =>
                 /\ imitation_calls[c] + Seen(c).imitation_attempts = 3
                 /\ imitation_calls[c] <= 2)
    /\ [][\A c \in Clients : ImitationChecked(c) =>
            /\ \/ /\ Seen(c)'.to_imitate = Seen(c).to_imitate
                  /\ Seen(c)'.imitation_attempts = Seen(c).imitation_attempts - 1
                  /\ Seen(c)'.imitation_attempts > 0
               \/ /\ Seen(c)'.to_imitate = ""
                  /\ Seen(c)'.imitation_attempts = 0
            /\ Seen(c).imitation_attempts = 1 => Seen(c)'.to_imitate = ""]_vars

\* C2 witness: a challenge closed by its third run.
C2_Witness ==
    /\ imitation_calls[1] = 3
    /\ Sess.to_imitate = ""
    /\ Sess.imitation_attempts = 0
    /\ response = <<"Good.">>

\* C3 witness: an open challenge with one attempt left, after another mode's turn.
C3_Witness ==
    /\ Sess.to_imitate = "yeats"
    /\ Sess.imitation_attempts = 1
    /\ TurnTaken
    /\ request.mode = "variation"

\* C4: when a challenge is open at the start of a non-empty turn, the mode is
\* 'imitation' or 'mixed' and no token of the text is banished, every possible
\* result of the turn is a result of the imitation strategy run right after
\* the transcript append and boredom increment: no pool strategy runs.
C4_OpenChallengeFirst ==
    \A text \in Texts, mode \in {"imitation", "mixed"} :
        (Strip(text) # <<>> /\ Sess.to_imitate # "" /\ BanishedTokens(text, Sess) = {}) =>
            /\ analyze(text, mode, Raw) \subseteq
                    _authorial_imitation(Strip(text), Started(text, Raw))
            /\ \A o \in analyze(text, mode, Raw) :
                    /\ IsImitationCheck(o.resp)
                    /\ o.st.used_quotes = Sess.used_quotes
                    /\ o.st.banished_words = Sess.banished_words
                    /\ o.st.boredom = Sess.boredom + 1

\* C4 witness: in mode 'mixed', on a text with a noun the pool could have
\* answered, the challenge opened the turn before answered "wrong style".
C4_Witness ==
    /\ TurnTaken
    /\ request.mode = "mixed"
    /\ request.text = TextForest
    /\ Sess.to_imitate # ""
    /\ Sess.imitation_attempts = 2
    /\ response = <<"No, not that style --- imitate", Title(Sess.to_imitate)>>

\* C5 (as claimed): a turn in an unrecognized mode has exactly the possible
\* results of the same turn in mode 'mixed', in every session state.
C5_UnknownModeIsMixed ==
    \A text \in Texts : analyze(text, "epic", Raw) = analyze(text, "mixed", Raw)

\* the strategies of the four thematic modes
ThematicModes == {"elaboration", "imitation", "variation", "backtracking"}

ThematicPool == UNION {Range(response_types(m)) : m \in ThematicModes}

\* C6 (as claimed): the pool of 'mixed' is the union of the four thematic
\* pools: it holds only thematic strategies, and every strategy of the pool
\* of the thematic mode of the turn just taken.
C6_MixedIsUnion ==
    /\ Range(response_types("mixed")) \subseteq ThematicPool
    /\ (TurnTaken /\ request.mode \in ThematicModes) =>
            Range(response_types(request.mode)) \subseteq Range(response_types("mixed"))

\* C6 (amended): the pool of 'mixed' holds only thematic strategies, and every
\* thematic strategy but the entity comment and the quote stub; so after a
\* turn in mode 'mixed' the reply is never one of those two.
C6_MixedIsUnionButTwo ==
    /\ Range(response_types("mixed")) \subseteq ThematicPool
    /\ ThematicPool \ Range(response_types("mixed")) =
            {"_comment_about_entities", "_suggest_quote_stub"}
    /\ (TurnTaken /\ request.mode = "mixed") => response[1] \notin {"stub", "place", "person"}

\* C6 witness: a turn in mode 'mixed' on a text with an entity ("Ashland")
\* was answered by a strategy of the pool.
C6_Witness ==
    /\ TurnTaken
    /\ request.mode = "mixed"
    /\ request.text = TextAshland
    /\ response[1] = "You've sung me"

\* the i-th and j-th suggestions fall in the same block of N suggestions
SameBlock(i, j) == (i - 1) \div Len(MOCK_QUOTES) = (j - 1) \div Len(MOCK_QUOTES)

NoDuplicates(s) == \A i, j \in 1..Len(s) : i # j => s[i] # s[j]

\* C7: counting quote suggestions since session start or reset, no two
\* suggestions of the same block of N are the same quote; used_quotes holds
\* the suggestions of the current block, without duplicates and at most N;
\* and used_quotes shrinks on a turn only when it held all N quotes.
C7_NoQuoteTwicePerCycle ==
    /\ [](\A c \in Clients :
            /\ \A i, j \in 1..Len(quote_log[c]) :
                 (i # j /\ SameBlock(i, j)) => quote_log[c][i] # quote_log[c][j]
            /\ quote_log[c] \in Seq(Range(MOCK_QUOTES))
            /\ NoDuplicates(Seen(c).used_quotes)
            /\ Len(Seen(c).used_quotes) <= Len(MOCK_QUOTES)
            /\ Range(Seen(c).used_quotes) \subseteq Range(MOCK_QUOTES))
    /\ [][\A c \in Clients :
            (request'.route = "/analyze" /\
             ~ (Range(Seen(c).used_quotes) \subseteq Range(Seen(c)'.used_quotes)))
                => Range(Seen(c).used_quotes) = Range(MOCK_QUOTES)]_vars

\* C7 witness: a sixth suggestion, after the catalog was cleared, repeats the first.
C7_Witness ==
    /\ Len(quote_log[1]) = Len(MOCK_QUOTES) + 1
    /\ quote_log[1][Len(MOCK_QUOTES) + 1] = quote_log[1][1]
    /\ Len(Sess.used_quotes) = 1

\* C8: a turn with empty or whitespace-only text, in any mode and session
\* state, has one possible result: the fixed prompt and the session unchanged.
C8_EmptyTurnNoOp ==
    \A text \in Texts, mode \in Modes :
        Split(text) = <<>> =>
            analyze(text, mode, Raw) = {Out(<<"Please enter some text.">>, Raw)}

\* C8 witness: a whitespace-only turn on a session with history got the prompt.
C8_Witness ==
    /\ request.route = "/analyze"
    /\ request.text = TextBlank
    /\ response = <<"Please enter some text.">>
    /\ Sess.poem_text # <<>>
    /\ Sess.banished_words # <<>>

BoredomResetters == {"Eschew this tired syntax:", "recall", "Now compare the"}

\* C9: boredom is never negative; a non-empty turn, in any mode, leaves it at
\* boredom + 1 or at 0, and at 0 only when the reply came from repetition
\* judgment, noun recall or comparison: both for every result the next turn
\* can have and for every turn taken.
C9_BoredomStep ==
    /\ [](\A c \in Clients : Seen(c).boredom \in Nat)
    /\ [](\A text \in {TextForest, TextWolf, TextPlain},
             mode \in {"imitation", "mixed", "epic"} :
            Strip(text) # <<>> =>
                \A o \in analyze(text, mode, Raw) :
                    /\ o.st.boredom \in {Sess.boredom + 1, 0}
                    /\ o.st.boredom = 0 <=> o.resp[1] \in BoredomResetters)
    /\ [][\A c \in Clients :
            (request'.route = "/analyze" /\ request'.client = c
             /\ Seen(c)'.poem_text # Seen(c).poem_text) =>
                /\ Seen(c)'.boredom \in {Seen(c).boredom + 1, 0}
                /\ Seen(c)'.boredom = 0 => response'[1] \in BoredomResetters
                /\ response'[1] \in BoredomResetters => Seen(c)'.boredom = 0]_vars

\* C9 witness: repetition judgment answered and boredom is back at 0.
C9_Witness ==
    /\ TurnTaken
    /\ response[1] = "Eschew this tired syntax:"
    /\ Sess.boredom = 0

\* C10: after /reset, whatever came before, the session holds the initial
\* defaults, the accessors report them, and every turn has the possible
\* results it has on a fresh session.
C10_ResetRestoresDefaults ==
    request.route = "/reset" =>
        /\ Seen(request.client) = DefaultSession
        /\ status(session[request.client]) =
              [banished_words |-> <<>>, to_imitate |-> "", poem_length |-> 0, boredom |-> 0]
        /\ \A text \in Texts, mode \in Modes :
              {[resp |-> o.resp, st |-> ensure_session(o.st)] :
                    o \in analyze(text, mode, session[request.client])} =
              {[resp |-> o.resp, st |-> ensure_session(o.st)] :
                    o \in analyze(text, mode, EmptySession)}

\* C10 witness: a /reset that found a transcript of eight words.
C10_Witness ==
    /\ request.route = "/reset"
    /\ request.poem_length = 8
    /\ status(Raw).poem_length = 0
    /\ Raw # EmptySession

\* every strategy name of mode_functions
Strategies == UNION {Range(mode_functions[m]) : m \in DOMAIN mode_functions}

Poem(c) == Get(session[c], "poem_text", <<>>)

\* C12: every non-empty turn appends "\n" and its (stripped) text to the
\* transcript: the earlier transcript stays as a prefix and the word count
\* grows by the number of words of the text, whichever strategy responds.
\* From a new session the six-word turn "A wolf hunts in the moonlight" in
\* mode 'elaboration' returns a non-empty string, and leaves word count 6
\* and boredom 1.
C12_TranscriptAppend ==
    [][\A c \in Clients :
         (request'.route = "/analyze" /\ request'.client = c
          /\ Strip(request'.text) # <<>>) =>
            /\ Poem(c)' = Poem(c) \o <<NL>> \o Strip(request'.text)
            /\ status(session[c])'.poem_length =
                  status(session[c]).poem_length + Len(Split(request'.text))
            /\ (session[c] = EmptySession /\ request'.text = TextMoonlight
                /\ request'.mode = "elaboration") =>
                  /\ response' \notin {None, Raised}
                  /\ status(session[c])'.poem_length = 6
                  /\ status(session[c])'.boredom = 1]_vars

\* C12 witness: the second turn, a text with surrounding whitespace answered
\* by a quote, left the six words of the first turn in front of its three.
C12_Witness ==
    /\ TurnTaken
    /\ request.text = TextPadded
    /\ request.poem_length = 6
    /\ IsQuote(response)
    /\ Raw.poem_text = <<NL>> \o TextMoonlight \o <<NL, "so", SP, "it", SP, "goes">>
    /\ status(Raw).poem_length = 9

\* the banished words of client c (none while the session holds no key)
Banished(c) == Get(session[c], "banished_words", <<>>)

\* C13: no turn removes a banished word.  A turn leaves banished_words as it
\* was or appends one word to it; it appends only when the reply is the
\* banishment naming that word, and the word is a noun of the vocabulary, a
\* word of the lower-cased text of the turn and not banished before, so the
\* list never holds a word twice.
C13_BanishedOnlyGrows ==
    [][\A c \in Clients :
         (request'.route = "/analyze" /\ request'.client = c) =>
            /\ \/ Banished(c)' = Banished(c)
               \/ \E w \in common_nouns :
                    /\ Banished(c)' = Append(Banished(c), w)
                    /\ w \in Range(Split(LowerText(request'.text)))
                    /\ w \notin Range(Banished(c))
                    /\ response' = <<"I forbid you from singing of", w>>
            /\ (response' # <<>> /\ response'[1] = "I forbid you from singing of") =>
                  Banished(c)' # Banished(c)
            /\ NoDuplicates(Banished(c)')]_vars

\* C13 witness: a second banishment; the first took "moon" from "Ashland
\* Forest moon", this one takes "forest" from "I love the forest".
C13_Witness ==
    /\ TurnTaken
    /\ request.text = TextForest
    /\ response = <<"I forbid you from singing of", "forest">>
    /\ Raw.banished_words = <<"moon", "forest">>

Yields(f, text, st) == \E o \in Call(f, text, st) : o.resp \notin {None, Raised}

\* one of the two priority checks of analyze_text returns a response
PriorityFires(text, mode, st) ==
    \/ st.banished_words # <<>> /\ Yields("_check_banished_words", text, st)
    \/ /\ st.to_imitate # "" /\ mode \in ImitationPriorityModes
       /\ Yields("_authorial_imitation", text, st)

\* the reply is the response of a strategy of the pool that returns one
FromPool(resp, text, mode, st) ==
    \E f \in Range(response_types(mode)) :
       \E o \in Call(f, text, st) : o.resp = resp /\ o.resp \notin {None, Raised}

\* C15 as stated: the fallback is the reply of a non-empty turn exactly when
\* no priority check fires and no strategy of the pool returns a response;
\* and whenever a strategy of the pool would return a response, the reply is
\* the response of such a strategy.
C15_PoolResponseWhenever ==
    [][\A c \in Clients :
         (request'.route = "/analyze" /\ request'.client = c
          /\ Strip(request'.text) # <<>>) =>
            LET text == Strip(request'.text)
                mode == request'.mode
                st == Started(request'.text, session[c])
                pool == Range(response_types(mode))
                priority == PriorityFires(text, mode, st)
                yielding == {f \in pool : Yields(f, text, st)}
            IN  /\ response' = <<"Continue...">> <=> (~ priority /\ yielding = {})
                /\ yielding # {} => FromPool(response', text, mode, st)]_vars

\* C15 amended: the same, the second part for the turns on which no priority
\* check fires (a banished-word warning is the reply in a mode whose pool
\* does not hold the banished-word check).
C15_PoolResponseUnlessPriority ==
    [][\A c \in Clients :
         (request'.route = "/analyze" /\ request'.client = c
          /\ Strip(request'.text) # <<>>) =>
            LET text == Strip(request'.text)
                mode == request'.mode
                st == Started(request'.text, session[c])
                pool == Range(response_types(mode))
                priority == PriorityFires(text, mode, st)
                yielding == {f \in pool : Yields(f, text, st)}
            IN  /\ response' = <<"Continue...">> <=> (~ priority /\ yielding = {})
                /\ (~ priority /\ yielding # {}) =>
                      FromPool(response', text, mode, st)]_vars

\* C15 witness: the second turn in 'variation' is answered by the fallback:
\* its text holds no noun and no banished word, and boredom is 2.
C15_Witness ==
    /\ TurnTaken
    /\ request.mode = "variation"
    /\ request.text = TextPlain
    /\ response = <<"Continue...">>
    /\ Raw.banished_words = <<"forest">>
    /\ Raw.boredom = 2

\* the transcript of session st holds a noun that can be recalled
HoldsRecallable(st) == \E w \in Range(Split(st.poem_text)) : Lower(w) \in recall_nouns

\* what C16 says of a request of client c, `firsts` being the first words a
\* complaint is made about: with boredom as incremented by the turn, the
\* style complaint is returned only if boredom >= 3, the text has more than
\* three words and its first word is in firsts; recall and comparison only if
\* boredom >= 5 and the transcript holds a recallable noun, comparison only
\* if the text holds a known noun as well; each leaves boredom at 0; a turn
\* leaves boredom at 0 or one higher and a reset at 0, so that no complaint
\* is returned on the two turns after boredom was 0, and no recall or
\* comparison on the four turns after.
BoredomThresholds(c, firsts) ==
    LET text == Strip(request'.text)
        words == Split(text)
        st == Started(request'.text, session[c])
        kind == response'[1]
    IN  /\ (request'.route = "/reset" /\ request'.client = c) => Seen(c)'.boredom = 0
        /\ (request'.route = "/analyze" /\ request'.client = c /\ text # <<>>) =>
              /\ st.boredom = Seen(c).boredom + 1
              /\ Seen(c)'.boredom \in {st.boredom, 0}
              /\ kind = "Eschew this tired syntax:" =>
                    st.boredom >= 3 /\ Len(words) > 3 /\ words[1] \in firsts
              /\ kind = "recall" => st.boredom >= 5 /\ HoldsRecallable(st)
              /\ kind = "Now compare the" =>
                    /\ st.boredom >= 5 /\ HoldsRecallable(st)
                    /\ _extract_nouns(text) # <<>>
              /\ kind \in BoredomResetters => Seen(c)'.boredom = 0
              /\ Seen(c).boredom < 2 => kind # "Eschew this tired syntax:"
              /\ Seen(c).boredom < 4 => kind \notin {"recall", "Now compare the"}

\* C16 as stated: the thresholds and the turns without complaint, recall or
\* comparison that follow from them, the style complaint being returned only
\* if the text starts with "I".
C16_StartsWithUpperI ==
    [][\A c \in Clients : BoredomThresholds(c, {"I"})]_vars

\* C16 amended: the same, the style complaint being returned only if the
\* first word of the text is "I" or "i".
C16_FirstWordIsI ==
    [][\A c \in Clients : BoredomThresholds(c, {"I", "i"})]_vars

\* C16 witness: the fifth turn since the session began is answered by a
\* recall of "forest", and boredom is back at 0.
C16_Witness ==
    /\ TurnTaken
    /\ request.mode = "backtracking"
    /\ response = <<"recall", "forest">>
    /\ Turns(Raw) = 5
    /\ Raw.boredom = 0

\* C17: a challenge is opened only by a turn on which the imitation strategy
\* runs while no challenge is open: the reply is then the opening, naming an
\* author of the catalog, who becomes the target with 3 attempts.  While a
\* challenge is open a request leaves the target as it is or unsets it, and
\* a 'wrong style' reply names the target and leaves it as it is.
C17_TargetFixedWhileOpen ==
    [][\A c \in Clients :
         LET before == Seen(c).to_imitate
             after == Seen(c)'.to_imitate
         IN  /\ (before = "" /\ after # "") =>
                   /\ request'.route = "/analyze" /\ request'.client = c
                   /\ Out(response', session'[c]) \in
                        _authorial_imitation(Strip(request'.text),
                                             Started(request'.text, session[c]))
                   /\ after \in Range(MOCK_AUTHORS)
                   /\ response' = <<"Try that again, in the style of", Title(after)>>
                   /\ Seen(c)'.imitation_attempts = 3
             /\ (request'.client = c /\ IsOpening(response')) => before = "" /\ after # ""
             /\ before # "" => after \in {before, ""}
             /\ (request'.client = c /\ response' # <<>>
                 /\ response'[1] = "No, not that style --- imitate") =>
                   /\ before # "" /\ after = before
                   /\ response'[2] = Title(before)]_vars

\* C17 witness: the second 'wrong style' reply of a challenge names its target.
C17_Witness ==
    /\ TurnTaken
    /\ response = <<"No, not that style --- imitate", "Whitman">>
    /\ Sess.to_imitate = "whitman"
    /\ Sess.imitation_attempts = 1
    /\ imitation_calls[1] = 2

\* C18: a turn answered by the banished-word warning appends the text to the
\* transcript and raises boredom by 1, and changes nothing else:
\* banished_words, used_quotes, to_imitate and imitation_attempts are as
\* before, in every mode and also when a challenge is open.
C18_WarningChangesNothingElse ==
    [][\A c \in Clients :
         (request'.route = "/analyze" /\ request'.client = c
          /\ response' # <<>> /\ response'[1] = "I said not to sing of") =>
            /\ session'[c] = [session[c] EXCEPT
                                !.poem_text = @ \o <<NL>> \o Strip(request'.text),
                                !.boredom = @ + 1]
            /\ Seen(c)'.banished_words = Seen(c).banished_words
            /\ Seen(c)'.used_quotes = Seen(c).used_quotes
            /\ Seen(c)'.to_imitate = Seen(c).to_imitate
            /\ Seen(c)'.imitation_attempts = Seen(c).imitation_attempts]_vars

\* C18 witness: a warning in mode 'imitation' while a challenge is open with
\* its three attempts, which the turn leaves.
C18_Witness ==
    /\ TurnTaken
    /\ request.mode = "imitation"
    /\ response = <<"I said not to sing of", "wolf">>
    /\ Sess.to_imitate # ""
    /\ Sess.imitation_attempts = 3
    /\ Sess.banished_words = <<"wolf">>

\* the strategies analyze_text may call in the mode: the pool and the two
\* priority checks
Callable(mode) ==
    Range(response_types(mode)) \cup {"_check_banished_words"}
        \cup (IF mode \in ImitationPriorityModes THEN {"_authorial_imitation"} ELSE {})

\* C19: with st the session after the transcript append and the boredom
\* increment of a non-empty turn, the turn either ends in the fallback and
\* leaves st, or returns the response of one strategy and leaves the session
\* that this strategy's call on st leaves; and every strategy of the pool
\* that returns no response on st leaves st as it is.
C19_OnlyTheResponderMutates ==
    [][\A c \in Clients :
         (request'.route = "/analyze" /\ request'.client = c
          /\ Strip(request'.text) # <<>>) =>
            LET text == Strip(request'.text)
                mode == request'.mode
                st == Started(request'.text, session[c])
            IN  /\ \/ response' = <<"Continue...">> /\ session'[c] = st
                   \/ /\ response' \notin {None, Raised, <<"Continue...">>}
                      /\ \E f \in Callable(mode) :
                            Out(response', session'[c]) \in Call(f, text, st)
                /\ \A f \in Range(response_types(mode)) :
                      \A o \in Call(f, text, st) :
                         o.resp \in {None, Raised} => o.st = st]_vars

\* C19 witness: a fallback at boredom 5 in 'backtracking': recall and
\* comparison pass their threshold, find no noun and leave boredom at 5.
C19_Witness ==
    /\ TurnTaken
    /\ request.mode = "backtracking"
    /\ response = <<"Continue...">>
    /\ Raw.boredom = 5
    /\ Turns(Raw) = 5

\* C20: a turn in mode 'elaboration', 'variation' or 'backtracking' leaves
\* to_imitate, imitation_attempts and used_quotes as they were, so that an
\* open challenge stays open with its author and attempts and none is
\* opened; a turn in 'elaboration' leaves banished_words too and, when its
\* text is not empty, raises boredom by exactly 1.
C20_ThematicTurnsLeaveChallenge ==
    [][\A c \in Clients :
         (request'.route = "/analyze" /\ request'.client = c) =>
            /\ request'.mode \in {"elaboration", "variation", "backtracking"} =>
                  /\ Seen(c)'.to_imitate = Seen(c).to_imitate
                  /\ Seen(c)'.imitation_attempts = Seen(c).imitation_attempts
                  /\ Seen(c)'.used_quotes = Seen(c).used_quotes
                  /\ ~ IsOpening(response') /\ ~ IsImitationCheck(response')
            /\ request'.mode = "elaboration" =>
                  /\ Seen(c)'.banished_words = Seen(c).banished_words
                  /\ Strip(request'.text) # <<>> =>
                        Seen(c)'.boredom = Seen(c).boredom + 1]_vars

\* C20 witness: a turn in 'elaboration' on a challenge that has two attempts
\* left, in a session that was suggested a quote.
C20_Witness ==
    /\ TurnTaken
    /\ request.mode = "elaboration"
    /\ Sess.to_imitate # ""
    /\ Sess.imitation_attempts = 2
    /\ Sess.used_quotes # <<>>
    /\ Sess.boredom = 4

\* the strategies that return a response whatever the text and the session
Unconditional == {"_suggest_quote", "_suggest_quote_stub", "_authorial_imitation"}

\* C21: a non-empty turn is answered by the fallback only in mode
\* 'elaboration', 'variation' or 'backtracking'; and in every session state,
\* for the mode 'mixed', 'imitation' or an unrecognized one, the pool holds
\* a quote suggestion, quote stub or authorial imitation, which returns a
\* response on the session the next turn would hand it, and the loop over
\* the pool does not end in the fallback.
C21_NoFallbackOutsideThematic ==
    /\ (TurnTaken /\ response = <<"Continue...">>) =>
          request.mode \in {"elaboration", "variation", "backtracking"}
    /\ \A mode \in {"mixed", "imitation", "epic"} :
          LET text == Strip(TextPlain)
              st == Started(TextPlain, Raw)
              pool == Range(response_types(mode))
          IN  /\ \E f \in pool \cap Unconditional :
                    \A o \in Call(f, text, st) : o.resp \notin {None, Raised}
              /\ Out(<<"Continue...">>, st) \notin FirstMatch(pool, text, st)

\* C21 witness: a turn in an unrecognized mode on a session whose five
\* quotes were all used is answered by a quote, the sixth of the session.
C21_Witness ==
    /\ TurnTaken
    /\ request.mode = "epic"
    /\ IsQuote(response)
    /\ Len(quote_log[1]) = Len(MOCK_QUOTES) + 1
    /\ Len(Sess.used_quotes) = 1

====
